---- MODULE Spec2Model ----
(***************************************************************************)
(* A model of the protocol layer of factom-rust-client (src/src/api.rs,    *)
(* src/src/balance.rs): the Factom client value (three endpoint URIs and   *)
(* a wrapping json-rpc id), its constructors, Clone, the id operations,    *)
(* the balance calls, and the URI normalisation inner_parse_uri.           *)
(*                                                                         *)
(* Strings are sequences of tokens: a token is a word ("http", "host",     *)
(* "8088", "v2") or one delimiter (":", "/", "?", "#", "@", "%2F").  The   *)
(* two parsers the code chains (url::Url::parse and http::Uri's FromStr)   *)
(* and the two serialisers between them work on these sequences.           *)
(***************************************************************************)
EXTENDS Integers, Sequences, FiniteSets, TLC

(***************************************************************************)
(* Bounds of the model.                                                    *)
(***************************************************************************)
\* width of the id word in bits (usize, scaled down)
WordBits == 3
\* most path segments in a host string handed to the normaliser
MaxSegs == 1
\* most slashes written after the scheme of a host string
MaxSlashes == 3
\* client values alive in one run of the lifecycle specification
MaxClients == 2

Wordsize == 2 ^ WordBits

(***************************************************************************)
(* The token alphabet.                                                     *)
(***************************************************************************)
SchemeNames == {"http", "https", "ftp", "HTTP"}
HostNames   == {"localhost", "host", "HOST", "api.factomd.net", "dev.factomd.net"}
SegNames    == {"v2", "debug", "testing", "a"}
DigitWords  == {"80", "443", "8088", "8089"}
\* words that start with a letter: they can be a scheme, a host, a segment
AlphaWords  == SchemeNames \cup HostNames \cup SegNames \cup {"u", "q", "f", "x"}

NoTok == ""

Lower(t) ==
  CASE t = "HTTP" -> "http"
    [] t = "HOST" -> "host"
    [] OTHER -> t

\* index of the first token of s that is in set, Len(s) + 1 when there is none
Find(s, set) ==
  LET I == {i \in 1..Len(s) : s[i] \in set}
  IN  IF I = {} THEN Len(s) + 1 ELSE CHOOSE i \in I : \A j \in I : i <= j

\* index of the last token of s that is in set, 0 when there is none
FindLast(s, set) ==
  LET I == {i \in 1..Len(s) : s[i] \in set}
  IN  IF I = {} THEN 0 ELSE CHOOSE i \in I : \A j \in I : i >= j

From(s, i) == SubSeq(s, i, Len(s))
Upto(s, i) == SubSeq(s, 1, i)

StartsWith(s, t) == Len(s) >= Len(t) /\ Upto(s, Len(t)) = t

(***************************************************************************)
(* url::Url, as inner_parse_uri uses it.                                   *)
(***************************************************************************)
\* schemes the url crate treats as special (authority required, path "/")
SpecialSchemes == {"http", "https", "ftp"}

DefaultPort(scheme) ==
  CASE scheme = "http" -> "80"
    [] scheme = "https" -> "443"
    [] scheme = "ftp" -> "21"
    [] OTHER -> NoTok

UrlErr ==
  [ok |-> FALSE, scheme |-> NoTok, cbb |-> FALSE, auth |-> FALSE, user |-> <<>>,
   host |-> NoTok, port |-> NoTok, path |-> <<>>, query |-> <<>>, fragment |-> <<>>]

\* path, query and fragment of what follows the authority
UrlTail(u, after, special) ==
  LET pe == Find(after, {"?", "#"})
      fs == Find(after, {"#"})
      p  == Upto(after, pe - 1)
  IN  [u EXCEPT !.path = IF p = <<>> /\ special THEN <<"/">> ELSE p,
                !.query = SubSeq(after, pe, fs - 1),
                !.fragment = From(after, fs)]

\* Url::parse after "scheme://": userinfo, host, port, then the rest
UrlAuthority(scheme, r, special) ==
  LET ae   == Find(r, {"/", "?", "#"})
      au   == Upto(r, ae - 1)
      at   == FindLast(au, {"@"})
      hp   == From(au, at + 1)
      he   == Find(hp, {":"})
      hs   == Upto(hp, he - 1)
      ps   == From(hp, he + 1)
      port == IF ps = <<>> THEN NoTok
              ELSE IF ps[1] = DefaultPort(scheme) THEN NoTok ELSE ps[1]
  IN  IF special /\ hs = <<>> THEN UrlErr                          \* EmptyHost
      ELSE IF Len(hs) > 1 \/ (hs # <<>> /\ hs[1] \notin AlphaWords)
        THEN UrlErr                                                \* InvalidDomainCharacter
      ELSE IF ps # <<>> /\ (Len(ps) > 1 \/ ps[1] \notin DigitWords)
        THEN UrlErr                                                \* InvalidPort
      ELSE UrlTail([ok |-> TRUE, scheme |-> scheme, cbb |-> FALSE, auth |-> TRUE,
                    user |-> IF at > 0 THEN Upto(au, at - 1) ELSE <<>>,
                    host |-> IF hs = <<>> THEN NoTok
                             ELSE IF special THEN Lower(hs[1]) ELSE hs[1],
                    port |-> port,
                    path |-> <<>>, query |-> <<>>, fragment |-> <<>>],
                   From(r, ae), special)

\* the slashes after a special scheme are skipped, however many there are
SkipSlashes(r) == From(r, Find(r, AlphaWords \cup DigitWords \cup {":", "?", "#", "@", "%2F"}))

UrlParse(s) ==
  IF Len(s) < 2 \/ s[1] \notin AlphaWords \/ s[2] # ":"
    THEN UrlErr                                                    \* RelativeUrlWithoutBase
  ELSE LET scheme == Lower(s[1])
           rest   == From(s, 3)
       IN  IF scheme \in SpecialSchemes
             THEN UrlAuthority(scheme, SkipSlashes(rest), TRUE)
           ELSE IF StartsWith(rest, <<"/", "/">>)
             THEN UrlAuthority(scheme, From(rest, 3), FALSE)
           ELSE IF StartsWith(rest, <<"/">>)
             THEN UrlTail([UrlErr EXCEPT !.ok = TRUE, !.scheme = scheme], rest, FALSE)
           ELSE UrlTail([UrlErr EXCEPT !.ok = TRUE, !.scheme = scheme, !.cbb = TRUE],
                        rest, FALSE)

\* a plausible slip: the new path is appended to the one the host had
UrlSetPathAppend(u, p) ==
  [u EXCEPT !.path = IF u.path = <<"/">> THEN p ELSE u.path \o p]

\* Url::set_path: the path is replaced; query and fragment stay
UrlSetPath(u, p) ==
  IF u.cbb
    THEN [u EXCEPT !.path = IF StartsWith(p, <<"/">>) THEN <<"%2F">> \o Tail(p) ELSE p]
    ELSE [u EXCEPT !.path = <<"/">> \o (IF StartsWith(p, <<"/">>) THEN Tail(p) ELSE p)]

\* Url::into_string
UrlToString(u) ==
  <<u.scheme, ":">>
  \o (IF u.auth
        THEN <<"/", "/">>
             \o (IF u.user # <<>> THEN u.user \o <<"@">> ELSE <<>>)
             \o (IF u.host # NoTok THEN <<u.host>> ELSE <<>>)
             \o (IF u.port # NoTok THEN <<":", u.port>> ELSE <<>>)
        ELSE <<>>)
  \o u.path \o u.query \o u.fragment

(***************************************************************************)
(* http::Uri, as inner_parse_uri uses it.                                  *)
(***************************************************************************)
UriErr == [ok |-> FALSE, scheme |-> NoTok, authority |-> <<>>, path |-> <<>>, query |-> <<>>]

\* <Uri as FromStr>::from_str: scheme only before "://", authority, then path and
\* query; a fragment is dropped
UriParse(s) ==
  IF s = <<>> THEN UriErr
  ELSE IF s[1] = "/"
    THEN LET pe == Find(s, {"?", "#"})
             fs == Find(s, {"#"})
         IN  [ok |-> TRUE, scheme |-> NoTok, authority |-> <<>>,
              path |-> Upto(s, pe - 1), query |-> SubSeq(s, pe, fs - 1)]
  ELSE LET hasScheme == /\ Len(s) >= 4
                        /\ s[1] \in AlphaWords \cup DigitWords
                        /\ SubSeq(s, 2, 4) = <<":", "/", "/">>
           scheme == IF hasScheme THEN s[1] ELSE NoTok
           r      == IF hasScheme THEN From(s, 5) ELSE s
           ae     == Find(r, {"/", "?", "#"})
           au     == Upto(r, ae - 1)
           at     == FindLast(au, {"@"})
           hp     == From(au, at + 1)
           colons == Cardinality({i \in 1..Len(hp) : hp[i] = ":"})
           after  == From(r, ae)
           pe     == Find(after, {"?", "#"})
           fs     == Find(after, {"#"})
       IN  IF \E i \in 1..Len(hp) : hp[i] = "%2F" THEN UriErr      \* InvalidAuthority
           ELSE IF colons > 1 THEN UriErr                          \* InvalidAuthority
           ELSE IF at > 0 /\ at = Len(au) THEN UriErr              \* InvalidAuthority
           ELSE IF ~hasScheme
             THEN IF ae # Len(r) + 1 THEN UriErr                   \* InvalidFormat
                  ELSE [ok |-> TRUE, scheme |-> NoTok, authority |-> au,
                        path |-> <<>>, query |-> <<>>]
           ELSE IF au = <<>> THEN UriErr                           \* InvalidFormat
           ELSE [ok |-> TRUE, scheme |-> scheme, authority |-> au,
                 path |-> Upto(after, pe - 1), query |-> SubSeq(after, pe, fs - 1)]

\* Uri::path: "/" for an empty path after a scheme
UriPath(u) == IF u.path = <<>> /\ u.scheme # NoTok THEN <<"/">> ELSE u.path

\* Uri::host and Uri::port_part, read off the authority
UriHost(u) ==
  LET hp == From(u.authority, FindLast(u.authority, {"@"}) + 1)
  IN  IF hp = <<>> \/ hp[1] = ":" THEN NoTok ELSE hp[1]

UriPort(u) ==
  LET hp == From(u.authority, FindLast(u.authority, {"@"}) + 1)
      c  == Find(hp, {":"})
  IN  IF c < Len(hp) /\ hp[c + 1] \in DigitWords THEN hp[c + 1] ELSE NoTok

\* <Uri as Display>::fmt
UriToString(u) ==
  (IF u.scheme # NoTok THEN <<u.scheme, ":", "/", "/">> ELSE <<>>)
  \o u.authority \o UriPath(u) \o u.query

(***************************************************************************)
(* The normaliser.  A result with ok = FALSE is a panic of one of the two  *)
(* expect calls.                                                           *)
(***************************************************************************)
API_VERSION == <<"/", "v2">>
DEBUG       == <<"/", "debug">>

\* a plausible slip, the one the doc comments describe ("adds the path if not
\* already included"): a host that has a path keeps it
inner_parse_uri_keep_path(hoststr, reqpath) ==
  LET url == UrlParse(hoststr)
  IN  IF ~url.ok THEN UriErr
      ELSE IF url.path \notin {<<>>, <<"/">>} THEN UriParse(UrlToString(url))
      ELSE UriParse(UrlToString(UrlSetPath(url, reqpath)))

inner_parse_uri(host, path) ==
  LET url == UrlParse(host)
  IN  IF ~url.ok THEN UriErr
      ELSE UriParse(UrlToString(UrlSetPath(url, path)))

parse_uri(host) == inner_parse_uri(host, API_VERSION)

parse_debug_uri(host) == inner_parse_uri(host, DEBUG)

(***************************************************************************)
(* The Factom client value.  The request builders of the struct are        *)
(* request_builder(uri) of the three URIs and the transport is shared, so  *)
(* a client value is its three URIs and its id.                            *)
(***************************************************************************)
\* constants::ID, the id a constructor starts from; no property rests on its value
ID == 0

FACTOMD_DEFAULT == <<"http", ":", "/", "/", "localhost", ":", "8088">>
WALLETD_DEFAULT == <<"http", ":", "/", "/", "localhost", ":", "8089">>
OPENNODE_URI    == <<"https", ":", "/", "/", "api.factomd.net">>

\* the struct literal every constructor ends with; ok = FALSE when one of the
\* three parses panicked, and then no client is returned
Factom(factomd_uri, walletd_uri, debug_uri, id) ==
  [ok |-> factomd_uri.ok /\ walletd_uri.ok /\ debug_uri.ok,
   factomd_uri |-> factomd_uri, walletd_uri |-> walletd_uri,
   debug_uri |-> debug_uri, id |-> id]

local_node ==
  Factom(parse_uri(FACTOMD_DEFAULT), parse_uri(WALLETD_DEFAULT),
         parse_debug_uri(FACTOMD_DEFAULT), ID)

new == local_node

open_node ==
  Factom(parse_uri(OPENNODE_URI), parse_uri(WALLETD_DEFAULT),
         parse_debug_uri(OPENNODE_URI), ID)

testnet_node ==
  Factom(parse_uri(OPENNODE_URI), parse_uri(WALLETD_DEFAULT),
         parse_debug_uri(OPENNODE_URI), ID)

\* a plausible slip: the debug endpoint derived from the wallet host
custom_node_debug_of_wallet(factomd, walletd) ==
  Factom(parse_uri(factomd), parse_uri(walletd), parse_debug_uri(walletd), ID)

custom_node(factomd, walletd) ==
  Factom(parse_uri(factomd), parse_uri(walletd), parse_debug_uri(factomd), ID)

\* a plausible slip: the clone starts from the default id
clone_fresh_id(self) == [self EXCEPT !.id = ID]

\* impl Clone for Factom
clone(self) ==
  Factom(self.factomd_uri, self.walletd_uri, self.debug_uri, self.id)

\* the body of increment_id, on the value the method took: Wrapping addition
increment_id(self) == [self EXCEPT !.id = (self.id + 1) % Wordsize]

\* the body of set_id
set_id(self, id) == [self EXCEPT !.id = id]

\* a plausible slip: every call advances the id of the value it was made on
balance_call_advancing(self) == [self EXCEPT !.id = (self.id + 1) % Wordsize]

\* the client value over a balance call: the methods take self, not mut self
balance_call(self) == self

\* Builds the basis of a request minus the body
request_builder(uri) ==
  [method |-> "POST", content_type |-> "application/json", uri |-> uri]

\* the request a call dispatches to the node endpoint: the envelope carries the
\* id the client value holds
factomd_call(self, method, params) ==
  [http |-> request_builder(self.factomd_uri),
   jsonrpc |-> "2.0", id |-> self.id, method |-> method, params |-> params]

(***************************************************************************)
(* Inputs.                                                                 *)
(***************************************************************************)
SlashRun(n) == [i \in 1..n |-> "/"]

\* paths of at most n segments, empty segments and a trailing slash included
RECURSIVE PathsUpTo(_)
PathsUpTo(n) ==
  IF n = 0 THEN {<<>>}
  ELSE LET P == PathsUpTo(n - 1)
       IN  P \cup {p \o <<"/">> \o seg : p \in P, seg \in {<<>>, <<"a">>, <<"v2">>}}

\* host strings a caller may hand over: well-formed ones, and ones with the
\* scheme, the slashes, the host or the port missing or wrong
HostStrings ==
  {sch \o SlashRun(k) \o usr \o hst \o prt \o pth \o qry \o frg :
     sch \in {<<>>, <<"http", ":">>, <<"https", ":">>, <<"ftp", ":">>, <<"HTTP", ":">>},
     k   \in 0..MaxSlashes,
     usr \in {<<>>, <<"u", "@">>},
     hst \in {<<>>, <<"host">>, <<"HOST">>},
     prt \in {<<>>, <<":">>, <<":", "80">>, <<":", "8088">>, <<":", "x">>},
     pth \in PathsUpTo(MaxSegs),
     qry \in {<<>>, <<"?", "q">>},
     frg \in {<<>>, <<"#", "f">>}}

\* the hosts the lifecycle specification configures custom nodes with
FewHosts ==
  {<<"http", ":", "/", "/", "host", ":", "8088", "/", "a">>,
   <<"localhost", ":", "8088">>}

\* the paths inner_parse_uri is called with: by parse_uri, by parse_debug_uri
\* and by the test inner_uri_parsing
RequiredPaths == {API_VERSION, DEBUG, <<"testing">>}

\* the ids a caller sets: a small one and the largest the word holds
IdInputs == {1, Wordsize - 1}

\* the addresses of the methods' examples
EcAddresses  == {"EC3EAsdw"}
FctAddresses == {"FA2jK2Hc"}

(***************************************************************************)
(* State.                                                                  *)
(***************************************************************************)
VARIABLES
  clients,    \* slot -> the client value in it
  owner,      \* slot -> "free", "held" (the caller owns the value) or "moved"
              \*         (a method took the value and dropped it on return)
  panicked,   \* an expect failed: the thread unwound
  last,       \* the operation that ran last, its arguments and what it returned
  host,       \* normaliser runs: the host string
  path,       \*                  the required path
  upc,        \*                  how far the run is
  uri,        \*                  inner_parse_uri(host, path)
  again       \*                  inner_parse_uri(uri.to_string(), path)

vars == <<clients, owner, panicked, last, host, path, upc, uri, again>>

Slots == 1..MaxClients

NoClient == Factom(UriErr, UriErr, UriErr, ID)

NoRequest == factomd_call(NoClient, NoTok, NoTok)

NoOp ==
  [op |-> "none", h |-> 0, src |-> 0, k |-> 0, factomd |-> <<>>, walletd |-> <<>>,
   out |-> UriErr, req |-> NoRequest]

clientVars == <<clients, owner, panicked, last>>
uriVars == <<host, path, upc, uri, again>>

InitClients ==
  /\ clients = [h \in Slots |-> NoClient]
  /\ owner = [h \in Slots |-> "free"]
  /\ panicked = FALSE
  /\ last = NoOp

InitUriIdle ==
  /\ host = <<>>
  /\ path = <<>>
  /\ upc = "idle"
  /\ uri = UriErr
  /\ again = UriErr

(***************************************************************************)
(* Operations on clients.  h is a slot the caller can bind the result to.  *)
(***************************************************************************)
\* a constructor returns c into slot h, or panics and returns nothing
Returns(h, c) ==
  IF c.ok
    THEN /\ clients' = [clients EXCEPT ![h] = c]
         /\ owner' = [owner EXCEPT ![h] = "held"]
         /\ panicked' = FALSE
    ELSE /\ panicked' = TRUE
         /\ UNCHANGED <<clients, owner>>

New(h) ==
  /\ ~panicked
  /\ owner[h] # "held"
  /\ Returns(h, new)
  /\ last' = [NoOp EXCEPT !.op = "new", !.h = h]
  /\ UNCHANGED uriVars

LocalNode(h) ==
  /\ ~panicked
  /\ owner[h] # "held"
  /\ Returns(h, local_node)
  /\ last' = [NoOp EXCEPT !.op = "local_node", !.h = h]
  /\ UNCHANGED uriVars

OpenNode(h) ==
  /\ ~panicked
  /\ owner[h] # "held"
  /\ Returns(h, open_node)
  /\ last' = [NoOp EXCEPT !.op = "open_node", !.h = h]
  /\ UNCHANGED uriVars

TestnetNode(h) ==
  /\ ~panicked
  /\ owner[h] # "held"
  /\ Returns(h, testnet_node)
  /\ last' = [NoOp EXCEPT !.op = "testnet_node", !.h = h]
  /\ UNCHANGED uriVars

CustomNode(h, factomd, walletd) ==
  /\ ~panicked
  /\ owner[h] # "held"
  /\ \E c \in {custom_node(factomd, walletd)} : Returns(h, c)
  /\ last' = [NoOp EXCEPT !.op = "custom_node", !.h = h,
                          !.factomd = factomd, !.walletd = walletd]
  /\ UNCHANGED uriVars

\* parse_uri and parse_debug_uri are public: a caller can run them alone
ParseUri(hoststr) ==
  /\ ~panicked
  /\ \E out \in {parse_uri(hoststr)} :
        /\ panicked' = ~out.ok
        /\ last' = [NoOp EXCEPT !.op = "parse_uri", !.factomd = hoststr, !.out = out]
  /\ UNCHANGED <<clients, owner>>
  /\ UNCHANGED uriVars

ParseDebugUri(hoststr) ==
  /\ ~panicked
  /\ \E out \in {parse_debug_uri(hoststr)} :
        /\ panicked' = ~out.ok
        /\ last' = [NoOp EXCEPT !.op = "parse_debug_uri", !.factomd = hoststr, !.out = out]
  /\ UNCHANGED <<clients, owner>>
  /\ UNCHANGED uriVars

\* let h = clients[g].clone()
Clone(g, h) ==
  /\ ~panicked
  /\ owner[g] = "held"
  /\ owner[h] # "held"
  /\ clients' = [clients EXCEPT ![h] = clone(clients[g])]
  /\ owner' = [owner EXCEPT ![h] = "held"]
  /\ last' = [NoOp EXCEPT !.op = "clone", !.h = h, !.src = g]
  /\ UNCHANGED panicked
  /\ UNCHANGED uriVars

\* a method that takes self by value: the caller's binding is moved from, the
\* body runs on the value, and the value is dropped when the method returns
Consumes(h, after) ==
  /\ clients' = [clients EXCEPT ![h] = after]
  /\ owner' = [owner EXCEPT ![h] = "moved"]

IncrementId(h) ==
  /\ ~panicked
  /\ owner[h] = "held"
  /\ Consumes(h, increment_id(clients[h]))
  /\ last' = [NoOp EXCEPT !.op = "increment_id", !.h = h]
  /\ UNCHANGED panicked
  /\ UNCHANGED uriVars

SetId(h, k) ==
  /\ ~panicked
  /\ owner[h] = "held"
  /\ Consumes(h, set_id(clients[h], k))
  /\ last' = [NoOp EXCEPT !.op = "set_id", !.h = h, !.k = k]
  /\ UNCHANGED panicked
  /\ UNCHANGED uriVars

\* id is a public field: clients[h].id = Wrapping(k)
AssignId(h, k) ==
  /\ ~panicked
  /\ owner[h] = "held"
  /\ clients' = [clients EXCEPT ![h].id = k]
  /\ last' = [NoOp EXCEPT !.op = "assign_id", !.h = h, !.k = k]
  /\ UNCHANGED <<owner, panicked>>
  /\ UNCHANGED uriVars

\* what the four balance methods share: the request goes out with the value's
\* id, and the value is dropped when the call returns
Called(h, method, params) ==
  /\ Consumes(h, balance_call(clients[h]))
  /\ last' = [NoOp EXCEPT !.op = method, !.h = h,
                          !.req = factomd_call(balance_call(clients[h]), method, params)]

EntryCreditBalance(h, address) ==
  /\ ~panicked
  /\ owner[h] = "held"
  /\ Called(h, "entry-credit-balance", address)
  /\ UNCHANGED panicked
  /\ UNCHANGED uriVars

FactoidBalance(h, address) ==
  /\ ~panicked
  /\ owner[h] = "held"
  /\ Called(h, "factoid-balance", address)
  /\ UNCHANGED panicked
  /\ UNCHANGED uriVars

MultipleEcBalances(h, addresses) ==
  /\ ~panicked
  /\ owner[h] = "held"
  /\ Called(h, "multiple-ec-balances", addresses)
  /\ UNCHANGED panicked
  /\ UNCHANGED uriVars

MultipleFctBalances(h, addresses) ==
  /\ ~panicked
  /\ owner[h] = "held"
  /\ Called(h, "multiple-fct-balances", addresses)
  /\ UNCHANGED panicked
  /\ UNCHANGED uriVars

(***************************************************************************)
(* Runs of the normaliser.                                                 *)
(***************************************************************************)
Normalize ==
  /\ upc = "start"
  /\ uri' = inner_parse_uri(host, path)
  /\ upc' = IF uri'.ok THEN "normalized" ELSE "panicked"
  /\ UNCHANGED <<host, path, again>>
  /\ UNCHANGED clientVars

Renormalize ==
  /\ upc = "normalized"
  /\ again' = inner_parse_uri(UriToString(uri), path)
  /\ upc' = IF again'.ok THEN "renormalized" ELSE "panicked again"
  /\ UNCHANGED <<host, path, uri>>
  /\ UNCHANGED clientVars

(***************************************************************************)
(* Specifications.                                                         *)
(***************************************************************************)
\* the life of client values: construction, clones, id operations, calls
Init == InitClients /\ InitUriIdle

Next ==
  \/ \E h \in Slots : New(h)
  \/ \E h \in Slots : LocalNode(h)
  \/ \E h \in Slots : OpenNode(h)
  \/ \E h \in Slots : TestnetNode(h)
  \/ \E h \in Slots, f \in FewHosts, w \in FewHosts : CustomNode(h, f, w)
  \/ \E g \in Slots, h \in Slots : Clone(g, h)
  \/ \E h \in Slots : IncrementId(h)
  \/ \E h \in Slots, k \in IdInputs : SetId(h, k)
  \/ \E h \in Slots, k \in IdInputs : AssignId(h, k)
  \/ \E h \in Slots, a \in EcAddresses : EntryCreditBalance(h, a)
  \/ \E h \in Slots, a \in FctAddresses : FactoidBalance(h, a)
  \/ \E h \in Slots, a \in EcAddresses : MultipleEcBalances(h, <<a>>)
  \/ \E h \in Slots, a \in FctAddresses : MultipleFctBalances(h, <<a>>)

Spec == Init /\ [][Next]_vars

\* one construction from any host strings, and a clone of what it returned
Fresh == last.op = "none"

NextConstruct ==
  \/ Fresh /\ New(1)
  \/ Fresh /\ LocalNode(1)
  \/ Fresh /\ OpenNode(1)
  \/ Fresh /\ TestnetNode(1)
  \/ Fresh /\ \E f \in HostStrings, w \in FewHosts \cup {WALLETD_DEFAULT} : CustomNode(1, f, w)
  \/ Fresh /\ \E f \in FewHosts \cup {FACTOMD_DEFAULT}, w \in HostStrings : CustomNode(1, f, w)
  \/ Fresh /\ \E s \in HostStrings : ParseUri(s)
  \/ Fresh /\ \E s \in HostStrings : ParseDebugUri(s)
  \/ last.op # "clone" /\ Clone(1, 2)

SpecConstruct == Init /\ [][NextConstruct]_vars

\* the normaliser alone, on every host string and required path
InitUri ==
  /\ InitClients
  /\ host \in HostStrings
  /\ path \in RequiredPaths
  /\ upc = "start"
  /\ uri = UriErr
  /\ again = UriErr

NextUri == Normalize \/ Renormalize

SpecUri == InitUri /\ [][NextUri]_vars

(***************************************************************************)
(* Properties.                                                             *)
(***************************************************************************)
BalanceMethods ==
  {"entry-credit-balance", "factoid-balance", "multiple-ec-balances",
   "multiple-fct-balances"}

\* C1: after a call of increment_id on a client whose id is v the client, still
\* the caller's, has id (v + 1) mod 2^wordsize, and so (v + n) mod 2^wordsize
\* after n calls; at the largest id the next one is 0.
C1_IncrementAddsOne ==
  [][\A h \in Slots : \A v \in 0..(Wordsize - 1) :
       (last'.op = "increment_id" /\ last'.h = h /\ clients[h].id = v)
         => (owner'[h] = "held" /\ clients'[h].id = (v + 1) % Wordsize)]_vars

\* C2: set_id(k) and increment_id persist their update to the client the caller
\* keeps using: after either the caller still has the client, and after set_id(k)
\* its id is k.
C2_IdUpdatePersists ==
  /\ last.op = "set_id" => (owner[last.h] = "held" /\ clients[last.h].id = last.k)
  /\ last.op = "increment_id" => owner[last.h] = "held"

\* what the URL parser reads the input as, against what the returned URI holds
SameEndpoint(u, url) ==
  /\ u.scheme = url.scheme
  /\ UriHost(u) = url.host
  /\ UriPort(u) = url.port

\* C3, as stated: for every host string that parses as an absolute URL,
\* normalize returns a URI whose path is exactly requiredPath and whose scheme,
\* host and port are the input's.
C3_PathIsExactlyRequired ==
  (upc # "start" /\ UrlParse(host).ok)
    => (uri.ok /\ UriPath(uri) = path /\ SameEndpoint(uri, UrlParse(host)))

AbsolutePath(p) == IF StartsWith(p, <<"/">>) THEN p ELSE <<"/">> \o p

\* C3, amended: for every host string that parses as an absolute URL with a
\* non-empty host, normalize returns a URI whose path is requiredPath, with a
\* leading "/" supplied when requiredPath has none: the host's own path is
\* replaced.  Scheme, host and port are the ones the URL parser reads from the
\* input (host in lower case, the scheme's default port left out).
C3_PathReplaced ==
  (upc # "start" /\ UrlParse(host).ok /\ UrlParse(host).host # NoTok)
    => (uri.ok /\ UriPath(uri) = AbsolutePath(path)
        /\ SameEndpoint(uri, UrlParse(host)))

\* C3's case: a host with a path of its own, a query and a fragment, normalised
\* to another path
C3_Witness ==
  /\ upc = "normalized"
  /\ UrlParse(host).path = <<"/", "a">>
  /\ UrlParse(host).query # <<>>
  /\ UrlParse(host).fragment # <<>>
  /\ UrlParse(host).port = "8088"
  /\ UriPath(uri) = API_VERSION

\* C4: normalising the text of a normalised URI again returns, and returns the
\* same URI.
C4_Idempotent ==
  /\ upc # "panicked again"
  /\ upc = "renormalized" => again = uri

\* C4's case: the second run was made on a URI whose host string had a path of
\* its own, userinfo and a query
C4_Witness ==
  /\ upc = "renormalized"
  /\ UrlParse(host).path = <<"/", "a">>
  /\ UrlParse(host).user # <<>>
  /\ uri.query # <<>>
  /\ path = DEBUG

\* how a host string reads by the generic URI syntax: scheme ":" then, after
\* "//", an authority [userinfo "@"] host [":" port]
HasScheme(s) == Len(s) >= 2 /\ s[1] \in AlphaWords /\ s[2] = ":"

HasAuthority(s) == HasScheme(s) /\ StartsWith(From(s, 3), <<"/", "/">>)

AuthorityOf(s) ==
  LET r == From(s, 5) IN Upto(r, Find(r, {"/", "?", "#"}) - 1)

HostPortOf(s) == From(AuthorityOf(s), FindLast(AuthorityOf(s), {"@"}) + 1)

SchemeLess(s) == ~HasScheme(s)

MissingHost(s) ==
  HasScheme(s) /\ (~HasAuthority(s) \/ HostPortOf(s) = <<>> \/ HostPortOf(s)[1] = ":")

Malformed(s) ==
  /\ HasAuthority(s)
  /\ LET hp == HostPortOf(s)
         ps == From(hp, Find(hp, {":"}) + 1)
     IN  ps # <<>> /\ (Len(ps) > 1 \/ ps[1] \notin DigitWords)

BadHost(s) == SchemeLess(s) \/ MissingHost(s) \/ Malformed(s)

\* C5: construction from a malformed, scheme-less or missing-host host string
\* fails: custom_node, parse_uri and parse_debug_uri panic and return nothing.
C5_BadHostFails ==
  /\ (last.op = "custom_node" /\ (BadHost(last.factomd) \/ BadHost(last.walletd)))
       => (panicked /\ owner[last.h] # "held")
  /\ (last.op \in {"parse_uri", "parse_debug_uri"} /\ BadHost(last.factomd))
       => (panicked /\ ~last.out.ok)

\* C6: Clone copies the id and the three URIs, and increment_id and set_id on
\* one client value leave every other client value as it was.
C6_CloneIndependent ==
  [][/\ last'.op = "clone"
          => /\ clients'[last'.h].id = clients[last'.src].id
             /\ clients'[last'.h].factomd_uri = clients[last'.src].factomd_uri
             /\ clients'[last'.h].walletd_uri = clients[last'.src].walletd_uri
             /\ clients'[last'.h].debug_uri = clients[last'.src].debug_uri
             /\ clients'[last'.src] = clients[last'.src]
     /\ last'.op \in {"increment_id", "set_id"}
          => \A g \in Slots \ {last'.h} :
               clients'[g] = clients[g] /\ owner'[g] = owner[g]]_vars

\* C6's case: set_id has run on one of two clients with the same URIs, the other
\* is still held with a different id that is not the default
C6_Witness ==
  /\ last.op = "set_id"
  /\ \E g \in Slots \ {last.h} :
       /\ owner[g] = "held"
       /\ clients[g].factomd_uri = clients[last.h].factomd_uri
       /\ clients[g].id # clients[last.h].id
       /\ clients[g].id # ID

\* C7: a balance call leaves the id of the value it is made on, and of every
\* other client, as it was, and its request carries that id.
C7_CallKeepsId ==
  [][last'.op \in BalanceMethods
       => /\ \A g \in Slots : clients'[g].id = clients[g].id
          /\ last'.req.id = clients[last'.h].id]_vars

\* C7's case: a call went out with an id that is not the default
C7_Witness ==
  /\ last.op \in BalanceMethods
  /\ last.req.id = Wordsize - 1
  /\ clients[last.h].id = Wordsize - 1

\* C8: in every client a constructor or Clone returned, the debug URI has the
\* node URI's scheme, host and port and path /debug; node and wallet URIs have
\* path /v2.
C8_DebugFromNode ==
  \A h \in Slots : owner[h] = "held" =>
    LET c == clients[h]
    IN  /\ c.debug_uri.scheme = c.factomd_uri.scheme
        /\ UriHost(c.debug_uri) = UriHost(c.factomd_uri)
        /\ UriPort(c.debug_uri) = UriPort(c.factomd_uri)
        /\ UriPath(c.debug_uri) = DEBUG
        /\ UriPath(c.factomd_uri) = API_VERSION
        /\ UriPath(c.walletd_uri) = API_VERSION

\* C8's case: custom_node returned a client whose wallet is on another scheme,
\* host and port than its node, and the client was cloned
C8_Witness ==
  /\ last.op = "clone"
  /\ owner[2] = "held"
  /\ clients[2].walletd_uri.scheme # clients[2].factomd_uri.scheme
  /\ UriHost(clients[2].walletd_uri) # UriHost(clients[2].factomd_uri)
  /\ UriPort(clients[2].walletd_uri) # UriPort(clients[2].factomd_uri)

HttpUri(u) ==
  /\ u.ok
  /\ u.scheme \in {"http", "https"}
  /\ UriHost(u) # NoTok
  /\ UriPath(u) # <<>>

\* C9: the three URIs of every client construction returned are absolute http
\* or https URIs with a host and a non-empty path.
C9_HttpUris ==
  \A h \in Slots : owner[h] = "held" =>
    /\ HttpUri(clients[h].factomd_uri)
    /\ HttpUri(clients[h].walletd_uri)
    /\ HttpUri(clients[h].debug_uri)

\* C10: testnet_node returns a client on the testnet host, dev.factomd.net, with
\* the local wallet; its node host is not the one open_node uses.
C10_TestnetHost ==
  (last.op = "testnet_node" /\ owner[last.h] = "held") =>
    LET c == clients[last.h]
    IN  /\ c.factomd_uri = parse_uri(<<"https", ":", "/", "/", "dev.factomd.net">>)
        /\ c.debug_uri = parse_debug_uri(<<"https", ":", "/", "/", "dev.factomd.net">>)
        /\ c.walletd_uri = parse_uri(WALLETD_DEFAULT)
        /\ UriHost(c.factomd_uri) # UriHost(open_node.factomd_uri)
        /\ UriHost(c.debug_uri) # UriHost(open_node.debug_uri)

====
